---- MODULE Spec2Model ----
(***************************************************************************)
(* GCE VM Controller (app/main.py): the HTTP control surface that starts,  *)
(* stops and polls one Compute Engine instance and proxies calls to the    *)
(* ComfyUI service on it.  One request is handled at a time; a handler     *)
(* runs up to its first outbound HTTP call in one step, every attempt of   *)
(* the retrying session is a step, and the handler's continuation is a     *)
(* step.  Time is counted in ticks of half a second (poll_interval is a    *)
(* float, timeout_sec an int).                                             *)
(***************************************************************************)
EXTENDS Integers, Sequences, FiniteSets, TLC

\* ------------------------------------------------------------- bounds
\* Largest valid timeout_sec a modelled /comfy/result request carries.
MaxTimeoutSec == 2
\* Most output nodes of a modelled history record.
MaxNodes == 2
\* Largest max_checks a modelled /vm/wait request carries.
MaxChecksReq == 2

\* -------------------------------------------------- program constants
\* Retry(total=3)
RetryTotal == 3
\* text[:1000]
DetailLimit == 1000
\* timeout_sec: Query(60, ge=1, le=600)
TimeoutGe == 1
TimeoutLe == 600
\* poll_interval: Query(1.5, gt=0, le=10.0), in ticks
PollLeTicks == 20
\* r.status_code >= 300
ErrorFrom == 300

\* Python None: an unset environment variable, an omitted header or parameter.
None == "None"

\* Python truthiness of an optional string.
Truthy(s) == s # None /\ s # ""

SecToTicks(s) == 2 * s

Min(a, b) == IF a < b THEN a ELSE b

\* Retry(status_forcelist=[429, 500, 502, 503, 504])
status_forcelist == {429, 500, 502, 503, 504}

\* Retry(allowed_methods=frozenset(["GET", "POST"]))
allowed_methods == {"GET", "POST"}

\* ------------------------------------------------------ remote bodies
\* A response body: JSON (with its parsed value) or other text of a length.
JsonText(v) == [json |-> TRUE, len |-> 2, val |-> v]
RawText(n) == [json |-> FALSE, len |-> n, val |-> [k |-> "raw"]]

\* The compute API's instance status enumeration.
GceStatuses == {"PROVISIONING", "STAGING", "RUNNING", "STOPPING", "TERMINATED"}

SeqsUpTo(S, n) == UNION {[1..m -> S] : m \in 0..n}

\* The "images" list of an output node, by filename ("" for an entry without
\* one): no entry, an entry without a filename before one with, two files.
ImageLists ==
    {<<>>, <<"", "b.png">>, <<"c.png", "a.png">>}

\* /history/<prompt_id>: the record is absent, or present with, per output
\* node (in the response's order), the filenames of its "images" list.
Histories ==
    {[k |-> "history", present |-> FALSE, outputs |-> <<>>]}
    \cup {[k |-> "history", present |-> TRUE, outputs |-> o] :
             o \in SeqsUpTo(ImageLists, MaxNodes)}

\* Bodies of a non-success answer: a JSON error object, short text, text
\* longer than the detail limit, nothing.
ErrorTexts ==
    {JsonText([k |-> "errobj"]), RawText(5), RawText(DetailLimit + 1), RawText(0)}

\* One attempt's outcome: no connection, or a status line with a body.
ConnFail == [conn |-> FALSE, status |-> 0, text |-> RawText(0)]
Answer(s, t) == [conn |-> TRUE, status |-> s, text |-> t]
NoAnswer == [conn |-> FALSE, status |-> -1, text |-> RawText(0)]

\* Non-success answers: 404 with every kind of body, and a retried (429, 503)
\* and a not retried (501) failure status.
ErrorAnswers ==
    {Answer(404, t) : t \in ErrorTexts}
    \cup {Answer(429, RawText(5)), Answer(501, JsonText([k |-> "errobj"])),
          Answer(503, RawText(5))}

\* What the remote may answer to one attempt of the call a handler makes;
\* vm is what the compute API currently reports for the instance.
HistoryAnswers ==
    {ConnFail, Answer(404, JsonText([k |-> "errobj"])), Answer(200, RawText(5))}
    \cup {Answer(200, JsonText(hh)) : hh \in Histories}

Answers(h, vm) ==
    CASE h = "vm_status" ->
           {ConnFail} \cup ErrorAnswers
           \cup {Answer(200, JsonText([k |-> "instance", status |-> s])) : s \in {vm, None}}
           \cup {Answer(200, RawText(0)), Answer(200, RawText(5))}
      [] h \in {"vm_start", "vm_stop"} ->
           {ConnFail} \cup ErrorAnswers
           \cup {Answer(200, JsonText([k |-> "operation"])), Answer(200, RawText(5))}
      [] h = "comfy_run" ->
           {ConnFail} \cup ErrorAnswers
           \cup {Answer(200, JsonText([k |-> "prompt", prompt_id |-> p])) : p \in {"pid", None}}
           \cup {Answer(200, RawText(5))}
      [] h = "comfy_result" -> HistoryAnswers
      [] OTHER ->
           {ConnFail} \cup ErrorAnswers \cup {Answer(200, RawText(5))}

\* --------------------------------------------------------- exceptions
\* What a call of a helper ends with: kind "return" or the exception raised.
Return(a) == [kind |-> "return", status_code |-> a.status, body |-> a.text]
Raised(e) == [kind |-> e, status_code |-> 0, body |-> RawText(0)]
HTTPException(code, detail) == [kind |-> "HTTPException", status_code |-> code, body |-> detail]
NoResult == [kind |-> "none", status_code |-> 0, body |-> RawText(0)]

\* A string detail of an HTTPException raised by the application itself.
Msg(s) == [json |-> FALSE, len |-> Len(s), val |-> [k |-> "msg", msg |-> s]]

\* _raise_http: JSON text is passed on parsed, other text cut to 1000 characters.
_raise_http(status, text) ==
    HTTPException(status,
        IF text.json
        THEN text
        ELSE [json |-> FALSE, len |-> Min(text.len, DetailLimit),
              val |-> [k |-> "error"]])


\* ------------------------------------------------------------- state
VARIABLES
    API_KEY, PROJECT_ID, ZONE, INSTANCE_ENV, COMFY_BASEURL,  \* os.environ at startup
                \* (INSTANCE_ENV is the source's INSTANCE)
    pc,         \* "idle" | "call" (an outbound call is in flight) | "loop" | "done"
    handler,    \* the route function the request was dispatched to, or "none"
    req,        \* the request being handled (the last one, once done)
    resp,       \* the response sent to the caller
    vm,         \* status the compute API reports for the instance ("unobserved"
                \* while a request that never asks for it is handled)
    call,       \* the session request in flight: method and retries left
    answer,     \* the remote's answer to the last attempt of the most recent call
    proxy,      \* how the most recent gce_req / comfy_get / comfy_post call ended
    outbound,   \* outbound calls made for this request: token, gce, comfy
    now,        \* time.time() since the request arrived, in ticks
    deadline, last_error,   \* locals of comfy_result
    sleeps,     \* time.sleep calls of comfy_result
    checks,     \* completed iterations of the loop of comfy_result
    seen        \* what the checks of comfy_result got from the remote, other than
                \* "absent" (see Observed)

cfgVars == <<API_KEY, PROJECT_ID, ZONE, INSTANCE_ENV, COMFY_BASEURL>>
loopVars == <<now, deadline, last_error, sleeps, checks, seen>>
vars == <<cfgVars, pc, handler, req, resp, vm, call, answer, proxy, outbound, loopVars>>

NoResp == [code |-> 0, body |-> [t |-> "none"]]
NoCall == [method |-> "", left |-> 0]
NoOutbound == [token |-> 0, gce |-> 0, comfy |-> 0]
NoError == [k |-> "None", exc |-> "", text |-> RawText(0)]

\* str(he.detail) of an HTTPException, str(e) of any other exception.
Str(res) ==
    IF res.kind = "HTTPException"
    THEN [k |-> "str", exc |-> "detail", text |-> res.body]
    ELSE [k |-> "str", exc |-> res.kind, text |-> RawText(0)]

\* ----------------------------------------------------------- requests
KeyHeaders == {None, "secret", "wrong"}

Req(path, method, key) ==
    [path |-> path, method |-> method, x_api_key |-> key,
     project |-> None, zone |-> None, instance |-> None,
     prompt_id |-> None, timeout_sec |-> 0, poll_interval |-> 0,
     filename |-> None, payload |-> None,
     target |-> None, max_checks |-> 0, interval_sec |-> 0]

NoReq == Req("", "", None)

\* @app.get / @app.post / @app.api_route: path, methods, route function.
Routes ==
    {[path |-> "/", methods |-> {"GET"}, fn |-> "root"],
     [path |-> "/vm/start", methods |-> {"POST", "GET"}, fn |-> "vm_start"],
     [path |-> "/vm/stop", methods |-> {"POST", "GET"}, fn |-> "vm_stop"],
     [path |-> "/vm/status", methods |-> {"GET", "POST"}, fn |-> "vm_status"],
     [path |-> "/comfy/ping", methods |-> {"GET"}, fn |-> "comfy_ping"],
     [path |-> "/comfy/run", methods |-> {"POST"}, fn |-> "comfy_run"],
     [path |-> "/comfy/result", methods |-> {"GET"}, fn |-> "comfy_result"],
     [path |-> "/comfy/fetch", methods |-> {"GET"}, fn |-> "comfy_fetch"]}

Route(fn) == CHOOSE rt \in Routes : rt.fn = fn

Routed(r) == \E rt \in Routes : rt.path = r.path /\ r.method \in rt.methods

\* Requests to a route without parameters of its own.
PlainRequests(fn) ==
    {Req(Route(fn).path, m, k) : m \in Route(fn).methods, k \in KeyHeaders}

\* project / zone / instance: omitted (the default applies), empty, or given.
VmRequests(fn) ==
    {[r EXCEPT !.project = p, !.zone = z, !.instance = i] :
        r \in PlainRequests(fn), p \in {None, "", "p2"}, z \in {None, ""},
        i \in {None, ""}}

\* Query(default=PROJECT_ID) and its like.
Param(given, default) == IF given = None THEN default ELSE given

\* /comfy/result requests; timeout_sec in seconds, poll_interval in ticks.
ResultRequests ==
    {[r EXCEPT !.prompt_id = p, !.timeout_sec = t, !.poll_interval = i] :
        r \in PlainRequests("comfy_result"), p \in {None, "pid"},
        t \in {TimeoutGe - 1, TimeoutLe + 1} \cup (TimeoutGe..MaxTimeoutSec),
        i \in {0, 1, 3, PollLeTicks + 1}}

RunRequests ==
    {[r EXCEPT !.payload = p] :
        r \in PlainRequests("comfy_run"), p \in {None, "workflow"}}

FetchRequests ==
    {[r EXCEPT !.filename = f] :
        r \in PlainRequests("comfy_fetch"), f \in {None, "a.png"}}

\* The declared parameter constraints of a route function: required
\* parameters are present and numbers are in their ranges.
Valid(r) ==
    CASE r.path = "/comfy/result" ->
           /\ r.prompt_id # None
           /\ r.timeout_sec >= TimeoutGe /\ r.timeout_sec <= TimeoutLe
           /\ r.poll_interval > 0 /\ r.poll_interval <= PollLeTicks
      [] r.path = "/comfy/run" -> r.payload # None
      [] r.path = "/comfy/fetch" -> r.filename # None
      [] OTHER -> TRUE

\* Requests no route matches: POST /vm/wait, and a routed path with a method
\* the route does not take.
WaitRequests ==
    {[Req("/vm/wait", "POST", k) EXCEPT !.target = t, !.max_checks = n, !.interval_sec = 1] :
        k \in KeyHeaders, t \in {"RUNNING", "TERMINATED"}, n \in 1..MaxChecksReq}

OtherMethodRequests ==
    {Req(rt.path, m, k) : rt \in Routes, m \in {"GET", "POST"}, k \in KeyHeaders}

\* ---------------------------------------------------------- responses
Ok(body) == [code |-> 200, body |-> body]
\* FastAPI renders an HTTPException as its status code and {"detail": detail}.
Error(code, detail) == [code |-> code, body |-> [t |-> "detail", detail |-> detail]]
\* An exception no handler catches.
ServerError == [code |-> 500, body |-> [t |-> "server_error"]]

\* Mutant of check_key: only a missing header is refused
\* (if API_KEY and not x_api_key).
check_key_missing_only(x_api_key) == Truthy(API_KEY) /\ x_api_key = None

\* check_key: TRUE iff it raises 401.
check_key(x_api_key) == Truthy(API_KEY) /\ x_api_key # API_KEY

\* Mutant of ensure_params: refuses only when all three are empty
\* (if not (project or zone or instance)).
ensure_params_all_empty(project, zone, instance) ==
    ~(Truthy(project) \/ Truthy(zone) \/ Truthy(instance))

\* ensure_params: TRUE iff it raises 400.
ensure_params(project, zone, instance) ==
    ~(Truthy(project) /\ Truthy(zone) /\ Truthy(instance))

\* ------------------------------------------------- the retrying session
\* Whether the adapter's Retry retries after this attempt, retries permitting.
Retryable(a, method) ==
    \/ ~a.conn
    \/ a.status \in status_forcelist /\ method \in allowed_methods

\* How _session.request ends on an attempt that is not retried.
SessionResult(a, method) ==
    IF ~a.conn THEN Raised("ConnectionError")
    ELSE IF a.status \in status_forcelist /\ method \in allowed_methods
         THEN Raised("RetryError")
         ELSE Return(a)

\* gce_req after _session.request.
gce_req(s) ==
    IF s.kind # "return" THEN s
    ELSE IF s.status_code >= ErrorFrom THEN _raise_http(s.status_code, s.body)
    ELSE IF s.body.len = 0 THEN [s EXCEPT !.body = JsonText([k |-> "empty"])]
    ELSE IF s.body.json THEN s
    ELSE Raised("JSONDecodeError")

\* comfy_get after _session.get.
comfy_get(s) ==
    IF s.kind # "return" THEN s
    ELSE IF s.status_code >= ErrorFrom THEN _raise_http(s.status_code, s.body)
    ELSE s

\* comfy_post after _session.post.
comfy_post(s) ==
    IF s.kind # "return" THEN s
    ELSE IF s.status_code >= ErrorFrom THEN _raise_http(s.status_code, s.body)
    ELSE s

\* comfy_get / comfy_post before the request: COMFY_BASEURL must be set.
BaseUrlUnset == HTTPException(500, Msg("COMFY_BASEURL not set"))


\* ------------------------------------------------------------- Init
\* The deployments modelled: API_KEY, PROJECT_ID, ZONE, INSTANCE, COMFY_BASEURL.
Configs ==
    {<<"secret", "p", "z", "i", "http://10.128.0.3:8188">>,
     <<None, "p", "z", "", "http://10.128.0.3:8188">>,
     <<None, "", "", "", None>>,
     <<"", "p", "z", "i", None>>}

\* The state after startup: the configuration is read once from the
\* environment and no request has been handled.
Init ==
    /\ \E c \in Configs :
           /\ API_KEY = c[1]
           /\ PROJECT_ID = c[2] /\ ZONE = c[3] /\ INSTANCE_ENV = c[4]
           /\ COMFY_BASEURL = c[5]
    /\ pc = "idle" /\ handler = "none" /\ req = NoReq /\ resp = NoResp
    /\ vm = "unobserved"
    /\ call = NoCall /\ answer = NoAnswer /\ proxy = NoResult
    /\ outbound = NoOutbound
    /\ now = 0 /\ deadline = 0 /\ last_error = NoError
    /\ sleeps = 0 /\ checks = 0 /\ seen = {}

\* ---------------------------------------------------- action helpers
\* The server waits for a request.
Idle == pc = "idle"

\* A request arrives and is dispatched.
Accept(r, fn, status) ==
    /\ req' = r /\ handler' = fn /\ vm' = status
    /\ now' = 0 /\ sleeps' = 0 /\ checks' = 0 /\ seen' = {}
    /\ UNCHANGED cfgVars

NoLoop == deadline' = 0 /\ last_error' = NoError

\* The handler returns or raises: the response goes out.
Reply(response, result, out) ==
    /\ pc' = "done" /\ resp' = response /\ proxy' = result /\ outbound' = out
    /\ call' = NoCall /\ answer' = NoAnswer

\* The handler enters _session.request / .get / .post.
StartCall(method, out) ==
    /\ pc' = "call" /\ resp' = NoResp /\ proxy' = NoResult /\ outbound' = out
    /\ call' = [method |-> method, left |-> RetryTotal] /\ answer' = NoAnswer

\* The call in flight gets its last answer and the handler finishes.
Finish(a, result, response) ==
    /\ pc' = "done" /\ answer' = a /\ proxy' = result /\ resp' = response
    /\ call' = NoCall
    /\ UNCHANGED <<cfgVars, handler, req, vm, outbound, loopVars>>

\* An answer the session does not retry.
Final(a) == ~(Retryable(a, call.method) /\ call.left > 0)

\* ------------------------------------------------------------ actions
\* GET /
root ==
    /\ Idle
    /\ \E r \in PlainRequests("root") :
        /\ Accept(r, "root", "unobserved") /\ NoLoop
        /\ Reply(Ok([t |-> "root"]), NoResult, NoOutbound)

\* No route matches the path (404) or the method (405): no route function runs.
not_routed ==
    /\ Idle
    /\ \E r \in WaitRequests \cup OtherMethodRequests, status \in GceStatuses :
        /\ ~Routed(r)
        /\ Accept(r, "none", IF r.path = "/vm/wait" THEN status ELSE "unobserved")
        /\ NoLoop
        /\ Reply([code |-> IF \E rt \in Routes : rt.path = r.path THEN 405 ELSE 404,
                  body |-> [t |-> "not_routed"]], NoResult, NoOutbound)

\* A routed request that fails the declared parameter constraints is answered
\* 422 before the route function is called.
validation_error ==
    /\ Idle
    /\ \E r \in ResultRequests \cup RunRequests \cup FetchRequests :
        /\ ~Valid(r)
        /\ Accept(r, "none", "unobserved") /\ NoLoop
        /\ Reply([code |-> 422, body |-> [t |-> "validation"]], NoResult, NoOutbound)

\* vm_start, vm_stop and vm_status up to the request of gce_req: check_key,
\* ensure_params, get_access_token.
VmBegin(r, fn, method, status, tokenOk) ==
        /\ Accept(r, fn, status) /\ NoLoop
        /\ LET project == Param(r.project, PROJECT_ID)
               zone == Param(r.zone, ZONE)
               instance == Param(r.instance, INSTANCE_ENV)
           IN  IF check_key(r.x_api_key)
               THEN Reply(Error(401, Msg("unauthorized")), NoResult, NoOutbound)
               ELSE IF ensure_params(project, zone, instance)
               THEN Reply(Error(400, Msg("PROJECT_ID/ZONE/INSTANCE not set")),
                          NoResult, NoOutbound)
               ELSE IF ~tokenOk
               THEN Reply(ServerError, Raised("RefreshError"),
                          [NoOutbound EXCEPT !.token = 1])
               ELSE StartCall(method, [NoOutbound EXCEPT !.token = 1, !.gce = 1])

vm_start ==
    /\ Idle
    /\ \E r \in VmRequests("vm_start"), status \in GceStatuses, tokenOk \in BOOLEAN :
        VmBegin(r, "vm_start", "POST", status, tokenOk)

vm_stop ==
    /\ Idle
    /\ \E r \in VmRequests("vm_stop"), status \in GceStatuses, tokenOk \in BOOLEAN :
        VmBegin(r, "vm_stop", "POST", status, tokenOk)

vm_status ==
    /\ Idle
    /\ \E r \in VmRequests("vm_status"), status \in GceStatuses, tokenOk \in BOOLEAN :
        VmBegin(r, "vm_status", "GET", status, tokenOk)

\* The adapter retries the attempt: a connection failure or a status of the
\* force list, while retries are left.
session_retry ==
    /\ pc = "call"
    /\ \E a \in Answers(handler, vm) :
        /\ Retryable(a, call.method) /\ call.left > 0
        /\ call' = [call EXCEPT !.left = @ - 1]
    /\ UNCHANGED <<cfgVars, pc, handler, req, resp, vm, answer, proxy, outbound,
                   loopVars>>

\* What the route function answers once gce_req ended with res: the value
\* returned, the HTTPException raised, or an exception nothing catches.
VmResponse(res, body) ==
    CASE res.kind = "return" -> Ok(body)
      [] res.kind = "HTTPException" -> Error(res.status_code, res.body)
      [] OTHER -> ServerError

\* vm_start / vm_stop: return gce_req("POST", url)
vm_start_reply ==
    /\ pc = "call" /\ handler = "vm_start"
    /\ \E a \in Answers(handler, vm) :
        /\ Final(a)
        /\ LET res == gce_req(SessionResult(a, call.method))
           IN  Finish(a, res, VmResponse(res, [t |-> "json", val |-> res.body.val]))

vm_stop_reply ==
    /\ pc = "call" /\ handler = "vm_stop"
    /\ \E a \in Answers(handler, vm) :
        /\ Final(a)
        /\ LET res == gce_req(SessionResult(a, call.method))
           IN  Finish(a, res, VmResponse(res, [t |-> "json", val |-> res.body.val]))

\* Mutant of get_status: no default (j.get("status")).
get_status_no_default(j) ==
    IF j.k = "instance" THEN j.status ELSE None

\* j.get("status", "UNKNOWN")
get_status(j) ==
    IF j.k = "instance" THEN (IF j.status # None THEN j.status ELSE "UNKNOWN")
    ELSE "UNKNOWN"

\* vm_status: {"name": instance, "zone": zone, "status": j.get("status", "UNKNOWN")}
status_body(r, j) ==
    [t |-> "status", name |-> Param(r.instance, INSTANCE_ENV),
     zone |-> Param(r.zone, ZONE), status |-> get_status(j)]

vm_status_reply ==
    /\ pc = "call" /\ handler = "vm_status"
    /\ \E a \in Answers(handler, vm) :
        /\ Final(a)
        /\ LET res == gce_req(SessionResult(a, call.method))
           IN  Finish(a, res, VmResponse(res, status_body(req, res.body.val)))


\* comfy_ping: any exception of comfy_get, the HTTPException included, is
\* turned into 502 "connect failed".
comfy_ping ==
    /\ Idle
    /\ \E r \in PlainRequests("comfy_ping") :
        /\ Accept(r, "comfy_ping", "unobserved") /\ NoLoop
        /\ IF check_key(r.x_api_key)
           THEN Reply(Error(401, Msg("unauthorized")), NoResult, NoOutbound)
           ELSE IF ~Truthy(COMFY_BASEURL)
           THEN Reply(Error(502, Msg("connect failed")), BaseUrlUnset, NoOutbound)
           ELSE StartCall("GET", [NoOutbound EXCEPT !.comfy = 1])

comfy_ping_reply ==
    /\ pc = "call" /\ handler = "comfy_ping"
    /\ \E a \in Answers(handler, vm) :
        /\ Final(a)
        /\ LET res == comfy_get(SessionResult(a, call.method))
           IN  Finish(a, res,
                      IF res.kind = "return"
                      THEN Ok([t |-> "ping", ok |-> res.status_code < 400,
                               status |-> res.status_code])
                      ELSE Error(502, Msg("connect failed")))

\* comfy_run: an HTTPException is re-raised, any other exception becomes 502.
comfy_run ==
    /\ Idle
    /\ \E r \in RunRequests :
        /\ Valid(r)
        /\ Accept(r, "comfy_run", "unobserved") /\ NoLoop
        /\ IF check_key(r.x_api_key)
           THEN Reply(Error(401, Msg("unauthorized")), NoResult, NoOutbound)
           ELSE IF ~Truthy(COMFY_BASEURL)
           THEN Reply(Error(BaseUrlUnset.status_code, BaseUrlUnset.body),
                      BaseUrlUnset, NoOutbound)
           ELSE StartCall("POST", [NoOutbound EXCEPT !.comfy = 1])

comfy_run_reply ==
    /\ pc = "call" /\ handler = "comfy_run"
    /\ \E a \in Answers(handler, vm) :
        /\ Final(a)
        /\ LET res == comfy_post(SessionResult(a, call.method))
           IN  Finish(a, res,
                      CASE res.kind = "HTTPException" ->
                             Error(res.status_code, res.body)
                        [] res.kind = "return" /\ res.body.json ->
                             IF res.body.val.prompt_id # None
                             THEN Ok([t |-> "json", val |-> res.body.val])
                             ELSE Error(502, Msg("Unexpected response from ComfyUI"))
                        [] OTHER -> Error(502, Msg("ComfyUI error")))

\* comfy_fetch: the artifact is streamed back; errors as in comfy_run.
comfy_fetch ==
    /\ Idle
    /\ \E r \in FetchRequests :
        /\ Valid(r)
        /\ Accept(r, "comfy_fetch", "unobserved") /\ NoLoop
        /\ IF check_key(r.x_api_key)
           THEN Reply(Error(401, Msg("unauthorized")), NoResult, NoOutbound)
           ELSE IF ~Truthy(COMFY_BASEURL)
           THEN Reply(Error(BaseUrlUnset.status_code, BaseUrlUnset.body),
                      BaseUrlUnset, NoOutbound)
           ELSE StartCall("GET", [NoOutbound EXCEPT !.comfy = 1])

comfy_fetch_reply ==
    /\ pc = "call" /\ handler = "comfy_fetch"
    /\ \E a \in Answers(handler, vm) :
        /\ Final(a)
        /\ LET res == comfy_get(SessionResult(a, call.method))
           IN  Finish(a, res,
                      CASE res.kind = "HTTPException" ->
                             Error(res.status_code, res.body)
                        [] res.kind = "return" -> Ok([t |-> "stream"])
                        [] OTHER -> Error(502, Msg("ComfyUI fetch error")))

\* ------------------------------------------------------- comfy_result
\* for img in out.get("images", []): append the filename when it is not empty.
RECURSIVE CollectImages(_, _)
CollectImages(images, files) ==
    IF images = <<>> THEN files
    ELSE CollectImages(Tail(images),
                       IF Head(images) # "" THEN Append(files, Head(images))
                       ELSE files)

\* Mutant of CollectFiles: stops at the first node that has a file.
RECURSIVE CollectFilesFirstNode(_, _)
CollectFilesFirstNode(outputs, files) ==
    IF outputs = <<>> THEN files
    ELSE LET found == CollectImages(Head(outputs), files)
         IN  IF found # <<>> THEN found
             ELSE CollectFilesFirstNode(Tail(outputs), found)

\* for node_id, out in outputs.items(): collect the images of every node.
RECURSIVE CollectFiles(_, _)
CollectFiles(outputs, files) ==
    IF outputs = <<>> THEN files
    ELSE CollectFiles(Tail(outputs), CollectImages(Head(outputs), files))

\* Mutant of check_history: no test that the prompt_id is in the response,
\* so hist[prompt_id] raises KeyError, caught by except Exception.
check_history_key_error(res) ==
    IF res.kind # "return"
    THEN [kind |-> "error", files |-> <<>>, err |-> Str(res)]
    ELSE IF ~res.body.json
    THEN [kind |-> "error", files |-> <<>>, err |-> Str(Raised("JSONDecodeError"))]
    ELSE IF ~res.body.val.present
    THEN [kind |-> "error", files |-> <<>>, err |-> Str(Raised("KeyError"))]
    ELSE LET files == CollectFiles(res.body.val.outputs, <<>>)
         IN  IF files # <<>>
             THEN [kind |-> "files", files |-> files, err |-> NoError]
             ELSE [kind |-> "nofiles", files |-> <<>>, err |-> NoError]

\* Mutant of check_history: the except HTTPException clause sleeps without
\* recording the detail.
check_history_unrecorded(res) ==
    IF res.kind = "HTTPException"
    THEN [kind |-> "error", files |-> <<>>, err |-> NoError]
    ELSE IF res.kind # "return"
    THEN [kind |-> "error", files |-> <<>>, err |-> Str(res)]
    ELSE IF ~res.body.json
    THEN [kind |-> "error", files |-> <<>>, err |-> Str(Raised("JSONDecodeError"))]
    ELSE IF ~res.body.val.present
    THEN [kind |-> "absent", files |-> <<>>, err |-> NoError]
    ELSE LET files == CollectFiles(res.body.val.outputs, <<>>)
         IN  IF files # <<>>
             THEN [kind |-> "files", files |-> files, err |-> NoError]
             ELSE [kind |-> "nofiles", files |-> <<>>, err |-> NoError]

\* The body of the try block once comfy_get ended with res: the kind of the
\* check's outcome, the files found, the error text an except clause records.
check_history(res) ==
    IF res.kind # "return"
    THEN [kind |-> "error", files |-> <<>>, err |-> Str(res)]
    ELSE IF ~res.body.json
    THEN [kind |-> "error", files |-> <<>>, err |-> Str(Raised("JSONDecodeError"))]
    ELSE IF ~res.body.val.present
    THEN [kind |-> "absent", files |-> <<>>, err |-> NoError]
    ELSE LET files == CollectFiles(res.body.val.outputs, <<>>)
         IN  IF files # <<>>
             THEN [kind |-> "files", files |-> files, err |-> NoError]
             ELSE [kind |-> "nofiles", files |-> <<>>, err |-> NoError]

\* The error key of a body that has none.
NoKey == [k |-> "missing", exc |-> "", text |-> RawText(0)]

ResultBody(done, files, error) ==
    [t |-> "result", done |-> done, files |-> files, error |-> error]

\* Whether a history record names a file: some image of some output node
\* has a filename that is not empty.
HasFile(h) ==
    /\ h.present
    /\ \E n \in 1..Len(h.outputs) :
           \E i \in 1..Len(h.outputs[n]) : h.outputs[n][i] # ""

\* What a check got from the remote, read off the answer itself: a history
\* response without the prompt_id ("absent"), with it but without a file
\* ("nofiles"), with a file ("files"), or no history response ("error").
Observed(a) ==
    IF a.conn /\ a.status < ErrorFrom /\ a.text.json
    THEN (IF ~a.text.val.present THEN "absent"
          ELSE IF HasFile(a.text.val) THEN "files" ELSE "nofiles")
    ELSE "error"

\* One iteration that got answer a ends with outcome o at time t: return the
\* files, or record the error (if any), sleep poll_interval and go back to
\* the loop test.
EndCheck(o, t, a) ==
    /\ checks' = checks + 1
    /\ seen' = seen \cup ({Observed(a)} \ {"absent"})
    /\ IF o.kind = "files"
       THEN /\ pc' = "done" /\ resp' = Ok(ResultBody(TRUE, o.files, NoKey))
            /\ now' = t
            /\ UNCHANGED <<sleeps, last_error>>
       ELSE /\ pc' = "loop" /\ resp' = NoResp
            /\ now' = t + req.poll_interval
            /\ sleeps' = sleeps + 1
            /\ last_error' = IF o.kind = "error" THEN o.err ELSE last_error

\* Mutant of while_test: while time.time() <= deadline.
while_test_le(t, dl) == t <= dl

\* while time.time() < deadline
while_test(t, dl) == t < dl

\* comfy_result up to the loop: check_key, deadline, last_error.
comfy_result ==
    /\ Idle
    /\ \E r \in ResultRequests :
        /\ Valid(r)
        /\ Accept(r, "comfy_result", "unobserved")
        /\ last_error' = NoError
        /\ IF check_key(r.x_api_key)
           THEN /\ Reply(Error(401, Msg("unauthorized")), NoResult, NoOutbound)
                /\ deadline' = 0
           ELSE /\ deadline' = 0 + SecToTicks(r.timeout_sec)
                /\ pc' = "loop" /\ resp' = NoResp /\ proxy' = NoResult
                /\ outbound' = NoOutbound /\ call' = NoCall /\ answer' = NoAnswer

\* while time.time() < deadline: comfy_get raises at once when COMFY_BASEURL
\* is unset (caught as an HTTPException), else it sends the history query.
comfy_result_poll ==
    /\ pc = "loop" /\ handler = "comfy_result"
    /\ while_test(now, deadline)
    /\ IF ~Truthy(COMFY_BASEURL)
       THEN /\ EndCheck(check_history(BaseUrlUnset), now, NoAnswer)
            /\ proxy' = BaseUrlUnset
            /\ UNCHANGED <<call, answer, outbound>>
       ELSE /\ pc' = "call"
            /\ call' = [method |-> "GET", left |-> RetryTotal]
            /\ outbound' = [outbound EXCEPT !.comfy = @ + 1]
            /\ UNCHANGED <<resp, answer, proxy, now, last_error, sleeps, checks, seen>>
    /\ UNCHANGED <<cfgVars, handler, req, vm, deadline>>

\* How long a history query, its retries included, may take, in ticks.
QueryTicks == {0, 1}

\* The history query got its last answer: the rest of the iteration.
comfy_result_check ==
    /\ pc = "call" /\ handler = "comfy_result"
    /\ \E a \in Answers(handler, vm) :
        /\ Final(a)
        /\ answer' = a
        /\ LET res == comfy_get(SessionResult(a, call.method))
           IN  /\ proxy' = res
               /\ \E d \in QueryTicks : EndCheck(check_history(res), now + d, a)
    /\ call' = NoCall
    /\ UNCHANGED <<cfgVars, handler, req, vm, outbound, deadline>>

\* The loop test fails: the timeout body, with status 200.
comfy_result_timeout ==
    /\ pc = "loop" /\ handler = "comfy_result"
    /\ ~while_test(now, deadline)
    /\ pc' = "done"
    /\ resp' = Ok(ResultBody(FALSE, <<>>, last_error))
    /\ UNCHANGED <<cfgVars, handler, req, vm, call, answer, proxy, outbound, loopVars>>

\* The response is sent and the request's frame is gone: nothing but the
\* configuration survives a request.
next_request ==
    /\ pc = "done"
    /\ pc' = "idle" /\ handler' = "none" /\ req' = NoReq /\ resp' = NoResp
    /\ vm' = "unobserved"
    /\ call' = NoCall /\ answer' = NoAnswer /\ proxy' = NoResult
    /\ outbound' = NoOutbound
    /\ now' = 0 /\ deadline' = 0 /\ last_error' = NoError
    /\ sleeps' = 0 /\ checks' = 0 /\ seen' = {}
    /\ UNCHANGED cfgVars

\* ------------------------------------------------------ specification
Next ==
    \/ next_request
    \/ root \/ not_routed \/ validation_error
    \/ vm_start \/ vm_stop \/ vm_status
    \/ comfy_ping \/ comfy_run \/ comfy_fetch \/ comfy_result
    \/ session_retry
    \/ vm_start_reply \/ vm_stop_reply \/ vm_status_reply
    \/ comfy_ping_reply \/ comfy_run_reply \/ comfy_fetch_reply
    \/ comfy_result_poll \/ comfy_result_check \/ comfy_result_timeout

Spec == Init /\ [][Next]_vars

\* A handler that was called keeps running: the interpreter executes its
\* next statement, and an HTTP attempt ends within its (connect, read) timeout.
Running ==
    \/ session_retry
    \/ vm_start_reply \/ vm_stop_reply \/ vm_status_reply
    \/ comfy_ping_reply \/ comfy_run_reply \/ comfy_fetch_reply
    \/ comfy_result_poll \/ comfy_result_check \/ comfy_result_timeout

FairSpec == Spec /\ WF_vars(Running)


\* ============================================================ claims
Done == pc = "done"

\* An API key is configured and the request's header is missing or different.
BadKey == Truthy(API_KEY) /\ req.x_api_key # API_KEY

ProtectedPaths ==
    {"/vm/start", "/vm/stop", "/vm/status", "/comfy/ping", "/comfy/run",
     "/comfy/result", "/comfy/fetch"}

Unauthorized == Error(401, Msg("unauthorized"))

\* The compute API answered the last status query with the target status.
ReturnedTarget ==
    /\ answer.conn /\ answer.status = 200 /\ answer.text.json
    /\ answer.text.val.k = "instance"
    /\ answer.text.val.status = req.target

\* An authorized, well-formed POST /vm/wait has been answered.
WaitAnswered ==
    /\ Done /\ req.path = "/vm/wait" /\ req.method = "POST" /\ ~BadKey
    /\ Truthy(PROJECT_ID) /\ Truthy(ZONE) /\ Truthy(INSTANCE_ENV)

\* C1 (as claimed): POST /vm/wait issues at most max_checks status queries,
\* and when none of them returned the target status it fails with 408, the
\* payload carrying the last observed status.
C1_WaitTimesOut ==
    WaitAnswered =>
        /\ outbound.gce <= req.max_checks
        /\ ~ReturnedTarget =>
              /\ resp.code = 408
              /\ resp.body.t = "detail"

\* C2 (as claimed): POST /vm/wait, when the first status query returns the
\* target status (the instance is in it), returns {name, zone, status} at
\* once: one status query, no sleep.
C2_WaitReturnsAtOnce ==
    (WaitAnswered /\ vm = req.target) =>
        /\ resp.code = 200
        /\ resp.body.t = "status"
        /\ resp.body.status = req.target
        /\ outbound.gce = 1
        /\ sleeps = 0

\* The filenames of every output node, flattened in order, empty ones dropped.
RECURSIVE Concat(_)
Concat(outputs) ==
    IF outputs = <<>> THEN <<>> ELSE Head(outputs) \o Concat(Tail(outputs))

NotEmpty(f) == f # ""

Flattened(outputs) == SelectSeq(Concat(outputs), NotEmpty)

\* C3: in /comfy/result, once a history response holds the prompt_id with a
\* file, that check returns done: true with the flattened list of every
\* non-empty filename of every node of that response, and no query or sleep
\* follows: the handler has returned, it slept once per earlier check only,
\* and it sent one query per check.
C3_FirstFilesWin ==
    (handler = "comfy_result" /\ Observed(answer) = "files") =>
        /\ pc = "done"
        /\ resp = Ok(ResultBody(TRUE, Flattened(answer.text.val.outputs), NoKey))
        /\ sleeps = checks - 1
        /\ outbound.comfy = checks

C3_Witness ==
    /\ Done /\ handler = "comfy_result" /\ Observed(answer) = "files"
    /\ Len(answer.text.val.outputs) = 2
    /\ resp.body.files = <<"b.png", "c.png", "a.png">>
    /\ checks >= 2

\* C4: in /comfy/result, when the prompt_id was absent from every history
\* response obtained, the call returns 200 with done: false and no files;
\* an absent prompt_id sets no last_error (no error is reported when every
\* check got such a response).
C4_AbsentIsNotReady ==
    /\ (handler = "comfy_result" /\ seen = {}) => last_error = NoError
    /\ (Done /\ handler = "comfy_result" /\ checks > 0 /\ seen \subseteq {"error"}) =>
          /\ resp.code = 200
          /\ resp.body.t = "result"
          /\ resp.body.done = FALSE
          /\ resp.body.files = <<>>
          /\ seen = {} => resp.body.error = NoError

C4_Witness ==
    /\ Done /\ handler = "comfy_result" /\ seen = {}
    /\ checks >= 2 /\ outbound.comfy = checks
    /\ Observed(answer) = "absent"
    /\ resp = Ok(ResultBody(FALSE, <<>>, NoError))

\* The text an except clause has to record for the way the call ended.
Recorded(res) ==
    /\ last_error'.k = "str"
    /\ res.kind = "HTTPException" => last_error'.text = res.body
    /\ res.kind \notin {"HTTPException", "return"} => last_error'.exc = res.kind
    /\ res.kind = "return" => last_error'.exc = "JSONDecodeError"

\* C5: in /comfy/result, an error of a single check (a non-success status
\* turned into an HTTPException, COMFY_BASEURL unset, a connection or JSON
\* failure) is not propagated: its text becomes last_error, the loop sleeps
\* poll_interval and goes on; a check without an error leaves last_error
\* alone; and the call ends with done: true, or at the deadline with
\* done: false and the last recorded error text.
C5_ErrorsAbsorbed ==
    /\ [][(handler = "comfy_result" /\ checks' = checks + 1) =>
            IF Observed(answer') = "error"
            THEN /\ pc' = "loop" /\ resp' = NoResp
                 /\ Recorded(proxy')
                 /\ sleeps' = sleeps + 1
                 /\ now' >= now + req.poll_interval
            ELSE last_error' = last_error]_vars
    /\ [][(handler = "comfy_result" /\ pc = "loop" /\ pc' = "done") =>
            resp' = Ok(ResultBody(FALSE, <<>>, last_error))]_vars
    /\ []((Done /\ handler = "comfy_result" /\ checks > 0) =>
            /\ resp.code = 200
            /\ resp.body.t = "result"
            /\ resp.body.done \/ resp.body.error = last_error)

C5_Witness ==
    /\ Done /\ handler = "comfy_result" /\ checks >= 2
    /\ resp.body.t = "result" /\ ~resp.body.done
    /\ resp.body.error.k = "str" /\ resp.body.error.exc = "detail"
    /\ Observed(answer) = "absent"

\* C6 (as claimed): with an API key configured and the header missing or
\* different, every protected endpoint answers 401 and no outbound call was
\* made.
C6_Original ==
    (Done /\ req.path \in ProtectedPaths /\ Routed(req) /\ BadKey) =>
        /\ resp = Unauthorized
        /\ outbound = NoOutbound

\* C6 (amended): with an API key configured and the header missing or
\* different, a request to a protected endpoint is answered at once, without
\* any outbound call: 401 when it passes the endpoint's parameter validation
\* and 422 when it does not.
C6_Unauthorized ==
    (req.path \in ProtectedPaths /\ Routed(req) /\ BadKey) =>
        /\ pc = "done"
        /\ outbound = NoOutbound /\ proxy = NoResult /\ answer = NoAnswer
        /\ IF Valid(req) THEN resp = Unauthorized ELSE resp.code = 422

C6_Witness ==
    /\ Done /\ handler = "comfy_result" /\ API_KEY = "secret"
    /\ req.x_api_key = "wrong"
    /\ resp = Unauthorized /\ outbound = NoOutbound

\* project, zone or instance is empty once the defaults are applied.
MissingParam ==
    \/ Param(req.project, PROJECT_ID) = ""
    \/ Param(req.zone, ZONE) = ""
    \/ Param(req.instance, INSTANCE_ENV) = ""

\* C7: /vm/start, /vm/stop and /vm/status answer an authorized request with
\* project, zone or instance missing by 400, without any outbound call.
C7_MissingParams ==
    (handler \in {"vm_start", "vm_stop", "vm_status"} /\ ~BadKey /\ MissingParam) =>
        /\ pc = "done"
        /\ resp = Error(400, Msg("PROJECT_ID/ZONE/INSTANCE not set"))
        /\ outbound = NoOutbound /\ proxy = NoResult /\ answer = NoAnswer

C7_Witness ==
    /\ Done /\ handler = "vm_stop" /\ API_KEY = "secret" /\ req.x_api_key = "secret"
    /\ Param(req.project, PROJECT_ID) = "p2"
    /\ Param(req.zone, ZONE) = "z"
    /\ Param(req.instance, INSTANCE_ENV) = ""
    /\ resp.code = 400

\* The answer has a status field.
HasStatus(a) ==
    a.text.json /\ a.text.val.k = "instance" /\ a.text.val.status # None

\* C8: for a successful answer of the compute API (a success status with a
\* JSON object or an empty body), /vm/status returns {name, zone, status}
\* whose status is the answer's status, one of the enumerated values, or
\* UNKNOWN when the answer has no status field.
C8_StatusOrUnknown ==
    (/\ Done /\ handler = "vm_status"
     /\ answer.conn /\ answer.status < ErrorFrom
     /\ (answer.text.json \/ answer.text.len = 0)) =>
        /\ resp.code = 200
        /\ resp.body.t = "status"
        /\ resp.body.status \in GceStatuses \cup {"UNKNOWN"}
        /\ resp.body.status =
              IF HasStatus(answer) THEN answer.text.val.status ELSE "UNKNOWN"

C8_Witness ==
    /\ Done /\ handler = "vm_status" /\ answer.conn /\ answer.status = 200
    /\ answer.text.json /\ ~HasStatus(answer)
    /\ resp.code = 200 /\ resp.body.status = "UNKNOWN"

\* What _raise_http has to carry for a body.
ExpectedDetail(text) ==
    IF text.json THEN text
    ELSE [json |-> FALSE, len |-> Min(text.len, DetailLimit), val |-> [k |-> "error"]]

\* C9 (as claimed): once the retries are done, a non-success status of the
\* remote ends gce_req / comfy_get / comfy_post with an error carrying that
\* status code and the body (parsed when JSON, else cut to 1000 characters).
C9_UpstreamErrorSurfaced ==
    (proxy # NoResult /\ answer.conn /\ answer.status >= ErrorFrom) =>
        /\ proxy.kind = "HTTPException"
        /\ proxy.status_code = answer.status
        /\ proxy.body = ExpectedDetail(answer.text)

\* An authorized call of comfy_result is polling.
Polling == handler = "comfy_result" /\ pc \in {"loop", "call"}

\* The terminal responses of /comfy/result.
Terminal ==
    /\ resp.code = 200 /\ resp.body.t = "result"
    /\ \/ resp.body.done /\ resp.body.files # <<>>
       \/ ~resp.body.done /\ resp.body.files = <<>>

\* C10: every authorized call of comfy_result (check_key passed) ends, with
\* exactly one response, done: true with files or done: false without, and
\* no history query starts once the time has reached the deadline.
C10_ResultTerminates ==
    /\ Polling ~> (Done /\ handler = "comfy_result" /\ Terminal)
    /\ []((Done /\ handler = "comfy_result" /\ ~BadKey) => Terminal)
    /\ [][(Polling /\ resp' # NoResp) => (resp = NoResp /\ pc' = "done")]_vars
    /\ [][(Done /\ handler = "comfy_result") => (pc' = "idle" \/ resp' = resp)]_vars
    /\ [][(Polling /\ outbound'.comfy > outbound.comfy) => now < deadline]_vars

C10_Witness ==
    /\ Done /\ handler = "comfy_result" /\ Terminal /\ ~resp.body.done
    /\ checks >= 3 /\ now > deadline

====
